---- MODULE Spec2Model ----
(***************************************************************************)
(* Model of Annotation_protein_filter.py: the protein-sequence pipeline    *)
(* of main(): the parallel alphabet filter (ThreadPoolExecutor,            *)
(* as_completed, process_chunk), the two external tools (seqkit, cd-hit),  *)
(* the duplicate-identifier renaming pass and the final copy to --output.  *)
(*                                                                         *)
(* A record read from the input is [pos, id, seq]: id and seq are the      *)
(* fields of the Bio.SeqRecord, pos is the record's position in the input  *)
(* (the identity of the record object; it is never read by an action).     *)
(* A sequence is a tuple of one-character strings.  A FASTA file is the    *)
(* tuple of the records it holds, in file order.                           *)
(***************************************************************************)
EXTENDS Integers, Sequences, FiniteSets, TLC

\* ---------------------------------------------------------------- bounds
MaxRecords == 3
MaxChunk == 2
MaxThreads == 2

\* ------------------------------------------------------- pure functions
\* line 41: set("ACDEFGHIKLMNPQRSTVWY")
STANDARD_AA ==
    {"A", "C", "D", "E", "F", "G", "H", "I", "K", "L",
     "M", "N", "P", "Q", "R", "S", "T", "V", "W", "Y"}

\* lines 41-43: standard_aa, extended with U and O under --keep-uo
standard_aa_of(keep_uo) ==
    IF keep_uo THEN STANDARD_AA \cup {"U", "O"} ELSE STANDARD_AA

\* str.upper() on one character (the letters the inputs are drawn from)
upper_char(c) ==
    CASE c = "a" -> "A"
      [] c = "c" -> "C"
      [] c = "x" -> "X"
      [] c = "u" -> "U"
      [] OTHER -> c

\* variant of upper: the sequence is tested as it was read
upper_noop(s) == s

\* line 11: str(record.seq).upper()
upper(s) == [i \in 1..Len(s) |-> upper_char(s[i])]

\* line 12: set(seq)
set(s) == {s[i] : i \in 1..Len(s)}

\* line 12: set(seq).issubset(standard_aa), seq the upper-cased sequence
issubset(seq, standard_aa) == set(seq) \subseteq standard_aa

\* variant of process_chunk: the append to kept is not guarded by the test
RECURSIVE process_chunk_unguarded(_, _)
process_chunk_unguarded(records, standard_aa) ==
    IF records = <<>> THEN [kept |-> <<>>, removed |-> <<>>]
    ELSE LET record == Head(records)
             seq == upper(record.seq)
             rest == process_chunk_unguarded(Tail(records), standard_aa)
         IN  IF issubset(seq, standard_aa)
             THEN [kept |-> <<record>> \o rest.kept, removed |-> rest.removed]
             ELSE [kept |-> <<record>> \o rest.kept,
                   removed |-> <<[pos |-> record.pos, rid |-> record.id,
                                  seq |-> seq]>> \o rest.removed]

\* lines 8-16: process_chunk; the PartitionResult [kept, removed]
RECURSIVE process_chunk(_, _)
process_chunk(records, standard_aa) ==
    IF records = <<>> THEN [kept |-> <<>>, removed |-> <<>>]
    ELSE LET record == Head(records)
             seq == upper(record.seq)
             rest == process_chunk(Tail(records), standard_aa)
         IN  IF issubset(seq, standard_aa)
             THEN [kept |-> <<record>> \o rest.kept, removed |-> rest.removed]
             ELSE [kept |-> rest.kept,
                   removed |-> <<[pos |-> record.pos, rid |-> record.id,
                                  seq |-> seq]>> \o rest.removed]

\* variant of renamed_id: the suffix is the count before the increment
renamed_id_before_increment(main_id, n) == main_id \o "_" \o ToString(n - 1)

\* line 138: f"{main_id}_{id_count[main_id]}"
renamed_id(main_id, n) == main_id \o "_" \o ToString(n)

\* variant of rename_loop: a record with a repeated identifier is counted but
\* not written
RECURSIVE rename_loop_drop(_, _)
rename_loop_drop(records, st) ==
    IF records = <<>> THEN st
    ELSE LET record == Head(records)
             main_id == record.id
         IN  IF main_id \in DOMAIN st.id_count
             THEN LET n == st.id_count[main_id] + 1
                  IN  rename_loop_drop(Tail(records),
                        [id_count |-> [st.id_count EXCEPT ![main_id] = n],
                         out |-> st.out,
                         unique_ids |-> st.unique_ids,
                         duplicate_ids |-> st.duplicate_ids + 1])
             ELSE rename_loop_drop(Tail(records),
                        [id_count |-> st.id_count @@ (main_id :> 0),
                         out |-> Append(st.out, record),
                         unique_ids |-> st.unique_ids + 1,
                         duplicate_ids |-> st.duplicate_ids])

\* lines 132-144: the renaming loop over the records of current_file;
\* st is [id_count, out, unique_ids, duplicate_ids]
RECURSIVE rename_loop(_, _)
rename_loop(records, st) ==
    IF records = <<>> THEN st
    ELSE LET record == Head(records)
             main_id == record.id
         IN  IF main_id \in DOMAIN st.id_count
             THEN LET n == st.id_count[main_id] + 1
                  IN  rename_loop(Tail(records),
                        [id_count |-> [st.id_count EXCEPT ![main_id] = n],
                         out |-> Append(st.out,
                                   [record EXCEPT !.id = renamed_id(main_id, n)]),
                         unique_ids |-> st.unique_ids,
                         duplicate_ids |-> st.duplicate_ids + 1])
             ELSE rename_loop(Tail(records),
                        [id_count |-> st.id_count @@ (main_id :> 0),
                         out |-> Append(st.out, record),
                         unique_ids |-> st.unique_ids + 1,
                         duplicate_ids |-> st.duplicate_ids])

\* ------------------------------------------------------------- helpers
\* the orders in which list(set) can enumerate a set of futures (as_completed)
Orders(S) ==
    {q \in [1..Cardinality(S) -> S] : \A i, j \in 1..Cardinality(S) : i # j => q[i] # q[j]}

\* the records of s at the positions K, in the order of s
RECURSIVE Pick(_, _, _)
Pick(s, K, i) ==
    IF i > Len(s) THEN <<>>
    ELSE (IF i \in K THEN <<s[i]>> ELSE <<>>) \o Pick(s, K, i + 1)

\* what an external tool can write from the FASTA file s: records of s, in order
ToolOutputs(s) == {Pick(s, K, 1) : K \in SUBSET (1..Len(s))}

RECURSIVE Concat(_)
Concat(ss) == IF ss = <<>> THEN <<>> ELSE Head(ss) \o Concat(Tail(ss))

Range(s) == {s[i] : i \in 1..Len(s)}

\* ------------------------------------------------------------- inputs
\* the records the inputs of the dispatcher specification are drawn from:
\* a valid mixed-case sequence and a lower-case one that is valid only
\* under --keep-uo
RecordPool ==
    {[id |-> "A", seq |-> <<"A", "c">>],
     [id |-> "A_1", seq |-> <<"u">>]}
\* the records the inputs of the pipeline specification are drawn from:
\* identifiers that collide with each other and with a renamed identifier
IdRecordPool ==
    {[id |-> "A", seq |-> <<"A", "c">>],
     [id |-> "A_1", seq |-> <<"A", "c">>],
     [id |-> "A", seq |-> <<"a", "x">>]}
InputsOver(pool) == UNION {[1..n -> pool] : n \in 0..MaxRecords}
Args == {a \in [chunk : 0..MaxChunk, threads : 0..MaxThreads, keep_uo : BOOLEAN,
         skip_length : BOOLEAN, skip_cdhit : BOOLEAN] : a.skip_length # a.skip_cdhit}
PipelineArgs == [chunk : {MaxChunk}, threads : {0, 1}, keep_uo : {FALSE},
         skip_length : BOOLEAN, skip_cdhit : BOOLEAN]
\* the command lines of the fair specification: the default alphabet and a
\* positive chunk size
FairArgs == {a \in Args : ~a.keep_uo /\ a.chunk >= 1}
StaleLine == [pos |-> 0, rid |-> "old", seq |-> <<"Z">>]
WorkerExceptions == {"MemoryError"}

VARIABLES
    args,           \* the parsed command line (lines 27-39)
    input,          \* the records of the --input file
    report,         \* the lines of the --report file
    output,         \* the records last written to the --output file
    output_written, \* whether this run opened the --output file for writing
    output_clstr,   \* whether this run wrote {output}.clstr
    pc,             \* position of the main thread in main()
    err,            \* the exception that left main(): [kind, batch, at]
    tmpdir,         \* the TemporaryDirectory: "none" | "exists" | "removed"
    tmpdir_files,   \* the names of the files in the TemporaryDirectory
    input_count, chunk, futures,
    fstate,         \* future -> "PENDING" | "RUNNING" | "FINISHED" | "RAISED"
    fresult,        \* future -> the PartitionResult or the exception it holds
    finished,       \* as_completed: the futures still to be yielded, in order
    yielded,        \* as_completed: the futures already yielded
    total_kept, total_removed, temp_files,
    tmp_content,    \* name of a temp kept file on disk -> its records
    step1_output, step2_output, step3_output, step4_output,
    step_counts, current_file,
    length_proc, cdhit_proc,   \* "idle" | "running" | "exit0" | "exit1"
    id_count, unique_ids, duplicate_ids

vars == <<args, input, report, output, output_written, output_clstr, pc, err,
          tmpdir, tmpdir_files,
          input_count, chunk, futures, fstate, fresult, finished, yielded,
          total_kept, total_removed, temp_files, tmp_content,
          step1_output, step2_output, step3_output, step4_output,
          step_counts, current_file, length_proc, cdhit_proc,
          id_count, unique_ids, duplicate_ids>>

mainVars == <<report, output, output_written, output_clstr, pc, err,
          tmpdir, tmpdir_files,
          input_count, chunk, futures, yielded,
          total_kept, total_removed, temp_files, tmp_content,
          step1_output, step2_output, step3_output, step4_output,
          step_counts, current_file, length_proc, cdhit_proc,
          id_count, unique_ids, duplicate_ids>>

stage1Vars == <<input_count, chunk, futures, fstate, fresult, finished, yielded,
          total_kept, total_removed, temp_files, tmp_content>>

laterVars == <<step1_output, step2_output, step3_output, step4_output,
          step_counts, current_file, length_proc, cdhit_proc,
          id_count, unique_ids, duplicate_ids, output, output_written,
          output_clstr>>

NoError == [kind |-> "none", batch |-> "none", at |-> "none"]

\* lines 39-50: the state of main() after argument parsing
InitWith(argset, inputs) ==
    /\ args \in argset
    /\ input \in inputs
    /\ report \in {<<>>, <<StaleLine>>}
    /\ output = <<>>
    /\ output_written = FALSE
    /\ output_clstr = FALSE
    /\ pc = "start"
    /\ err = NoError
    /\ tmpdir = "none"
    /\ tmpdir_files = {}
    /\ input_count = 0
    /\ chunk = <<>>
    /\ futures = <<>>
    /\ fstate = <<>>
    /\ fresult = <<>>
    /\ finished = <<>>
    /\ yielded = {}
    /\ total_kept = 0
    /\ total_removed = 0
    /\ temp_files = <<>>
    /\ tmp_content = <<>>
    /\ step1_output = <<>>
    /\ step2_output = <<>>
    /\ step3_output = <<>>
    /\ step4_output = <<>>
    /\ step_counts = <<>>
    /\ current_file = "none"
    /\ length_proc = "idle"
    /\ cdhit_proc = "idle"
    /\ id_count = <<>>
    /\ unique_ids = 0
    /\ duplicate_ids = 0

Init == InitWith(Args, InputsOver(RecordPool))

InitPipeline == InitWith(PipelineArgs, InputsOver(IdRecordPool))

standard_aa == standard_aa_of(args.keep_uo)

\* an exception leaves a block of main(): the executor and the temporary
\* directory are still to be exited
Raise(kind) ==
    /\ err' = [kind |-> kind, batch |-> "none", at |-> pc]
    /\ pc' = "unwind"

\* variant of TruncateReport: the report is opened in append mode
TruncateReport_append ==
    /\ pc = "start"
    /\ pc' = "step1"
    /\ UNCHANGED <<args, input, report, err, tmpdir, tmpdir_files, stage1Vars,
                   laterVars>>

\* lines 52-53: open(args.report, 'w')
TruncateReport ==
    /\ pc = "start"
    /\ report' = <<>>
    /\ pc' = "step1"
    /\ UNCHANGED <<args, input, err, tmpdir, tmpdir_files, stage1Vars, laterVars>>

\* lines 56-63: TemporaryDirectory(), ThreadPoolExecutor(max_workers)
OpenExecutor ==
    /\ pc = "step1"
    /\ args.threads >= 1
    /\ tmpdir' = "exists"
    /\ pc' = "read"
    /\ UNCHANGED <<args, input, report, err, tmpdir_files, stage1Vars, laterVars>>

\* line 61: ThreadPoolExecutor raises ValueError when max_workers <= 0
ExecutorValueError ==
    /\ pc = "step1"
    /\ args.threads <= 0
    /\ tmpdir' = "exists"
    /\ Raise("ValueError")
    /\ UNCHANGED <<args, input, report, tmpdir_files, stage1Vars, laterVars>>

\* line 68 / 71: executor.submit(process_chunk, chunk, standard_aa)
submit(fs, c) == Append(fs, c)

\* variant of ReadRecord: the chunk is not emptied after it is submitted
ReadRecord_noreset ==
    /\ pc = "read"
    /\ input_count < Len(input)
    /\ LET n == input_count + 1
           record == [pos |-> n, id |-> input[n].id, seq |-> input[n].seq]
           c == Append(chunk, record)
       IN  /\ input_count' = n
           /\ chunk' = c
           /\ IF Len(c) >= args.chunk
              THEN /\ futures' = submit(futures, c)
                   /\ fstate' = Append(fstate, "PENDING")
                   /\ fresult' = Append(fresult, "none")
              ELSE UNCHANGED <<futures, fstate, fresult>>
    /\ UNCHANGED <<args, input, report, pc, err, tmpdir, tmpdir_files, finished, yielded,
                   total_kept, total_removed, temp_files, tmp_content, laterVars>>

\* lines 64-69: one iteration of the reading loop
ReadRecord ==
    /\ pc = "read"
    /\ input_count < Len(input)
    /\ LET n == input_count + 1
           record == [pos |-> n, id |-> input[n].id, seq |-> input[n].seq]
           c == Append(chunk, record)
       IN  /\ input_count' = n
           /\ IF Len(c) >= args.chunk
              THEN /\ futures' = submit(futures, c)
                   /\ fstate' = Append(fstate, "PENDING")
                   /\ fresult' = Append(fresult, "none")
                   /\ chunk' = <<>>
              ELSE /\ chunk' = c
                   /\ UNCHANGED <<futures, fstate, fresult>>
    /\ UNCHANGED <<args, input, report, pc, err, tmpdir, tmpdir_files, finished, yielded,
                   total_kept, total_removed, temp_files, tmp_content, laterVars>>

\* variant of EndOfInput: the last chunk is submitted without testing it
EndOfInput_unconditional ==
    /\ pc = "read"
    /\ input_count = Len(input)
    /\ futures' = submit(futures, chunk)
    /\ fstate' = Append(fstate, "PENDING")
    /\ fresult' = Append(fresult, "none")
    /\ pc' = "as_completed"
    /\ UNCHANGED <<args, input, report, err, tmpdir, tmpdir_files, input_count, chunk,
                   finished, yielded, total_kept, total_removed, temp_files,
                   tmp_content, laterVars>>

\* variant of EndOfInput: the reading loop can be left before the input is
\* exhausted
EndOfInput_early ==
    /\ pc = "read"
    /\ input_count <= Len(input)
    /\ IF chunk # <<>>
       THEN /\ futures' = submit(futures, chunk)
            /\ fstate' = Append(fstate, "PENDING")
            /\ fresult' = Append(fresult, "none")
       ELSE UNCHANGED <<futures, fstate, fresult>>
    /\ pc' = "as_completed"
    /\ UNCHANGED <<args, input, report, err, tmpdir, tmpdir_files, input_count, chunk,
                   finished, yielded, total_kept, total_removed, temp_files,
                   tmp_content, laterVars>>

\* lines 70-71: the input is exhausted; the last chunk is submitted
EndOfInput ==
    /\ pc = "read"
    /\ input_count = Len(input)
    /\ IF chunk # <<>>
       THEN /\ futures' = submit(futures, chunk)
            /\ fstate' = Append(fstate, "PENDING")
            /\ fresult' = Append(fresult, "none")
       ELSE UNCHANGED <<futures, fstate, fresult>>
    /\ pc' = "as_completed"
    /\ UNCHANGED <<args, input, report, err, tmpdir, tmpdir_files, input_count, chunk,
                   finished, yielded, total_kept, total_removed, temp_files,
                   tmp_content, laterVars>>

Done(f) == fstate[f] \in {"FINISHED", "RAISED"}
Running == {f \in DOMAIN fstate : fstate[f] = "RUNNING"}

\* variant of WorkerStart: a pool thread takes any queued work item
WorkerStart_any_order(f) ==
    /\ fstate[f] = "PENDING"
    /\ Cardinality(Running) < args.threads
    /\ fstate' = [fstate EXCEPT ![f] = "RUNNING"]
    /\ UNCHANGED <<args, input, fresult, finished, mainVars>>

\* a pool thread takes the oldest queued work item (the executor's queue is
\* FIFO and it never runs more than max_workers threads)
WorkerStart(f) ==
    /\ fstate[f] = "PENDING"
    /\ \A g \in 1..(f - 1) : fstate[g] # "PENDING"
    /\ Cardinality(Running) < args.threads
    /\ fstate' = [fstate EXCEPT ![f] = "RUNNING"]
    /\ UNCHANGED <<args, input, fresult, finished, mainVars>>

\* variant of WorkerReturn: the futures waiting to be yielded are kept in
\* submission order
WorkerReturn_submission_order(f) ==
    /\ fstate[f] = "RUNNING"
    /\ fstate' = [fstate EXCEPT ![f] = "FINISHED"]
    /\ fresult' = [fresult EXCEPT ![f] = process_chunk(futures[f], standard_aa)]
    /\ finished' = IF pc = "collect"
                   THEN SortSeq(Append(finished, f), LAMBDA x, y : x < y)
                   ELSE finished
    /\ UNCHANGED <<args, input, mainVars>>

\* variant of WorkerReturn: the worker adds its counts to the totals itself
WorkerReturn_counting(f) ==
    /\ fstate[f] = "RUNNING"
    /\ fstate' = [fstate EXCEPT ![f] = "FINISHED"]
    /\ fresult' = [fresult EXCEPT ![f] = process_chunk(futures[f], standard_aa)]
    /\ finished' = IF pc = "collect" THEN Append(finished, f) ELSE finished
    /\ total_kept' = total_kept + Len(process_chunk(futures[f], standard_aa).kept)
    /\ total_removed' = total_removed + Len(process_chunk(futures[f], standard_aa).removed)
    /\ UNCHANGED <<args, input, report, output, output_written, output_clstr,
                   pc, err, tmpdir, tmpdir_files, input_count, chunk, futures,
                   yielded, temp_files, tmp_content, step1_output, step2_output,
                   step3_output, step4_output, step_counts, current_file,
                   length_proc, cdhit_proc, id_count, unique_ids, duplicate_ids>>

\* the work item returns: future.set_result(process_chunk(chunk, standard_aa));
\* a future finishing after as_completed installed its waiter is queued for
\* it, in finishing order
WorkerReturn(f) ==
    /\ fstate[f] = "RUNNING"
    /\ fstate' = [fstate EXCEPT ![f] = "FINISHED"]
    /\ fresult' = [fresult EXCEPT ![f] = process_chunk(futures[f], standard_aa)]
    /\ finished' = IF pc = "collect" THEN Append(finished, f) ELSE finished
    /\ UNCHANGED <<args, input, mainVars>>

\* the work item raises: future.set_exception(e)
WorkerRaise(f) ==
    /\ fstate[f] = "RUNNING"
    /\ \E e \in WorkerExceptions :
         /\ fstate' = [fstate EXCEPT ![f] = "RAISED"]
         /\ fresult' = [fresult EXCEPT ![f] = e]
    /\ finished' = IF pc = "collect" THEN Append(finished, f) ELSE finished
    /\ UNCHANGED <<args, input, mainVars>>

\* variant of AsCompleted: only the futures still pending at the call are
\* waited for
AsCompleted_pending_only ==
    /\ pc = "as_completed"
    /\ finished' = <<>>
    /\ pc' = "collect"
    /\ UNCHANGED <<args, input, report, err, tmpdir, tmpdir_files, input_count,
                   chunk, futures, fstate, fresult, yielded, total_kept,
                   total_removed, temp_files, tmp_content, laterVars>>

\* line 73: the prologue of as_completed(futures): the futures already done
\* are yielded first, in the order list(set(...)) enumerates them; the others
\* are yielded as they finish
AsCompleted ==
    /\ pc = "as_completed"
    /\ \E q \in Orders({f \in DOMAIN futures : Done(f)}) : finished' = q
    /\ pc' = "collect"
    /\ UNCHANGED <<args, input, report, err, tmpdir, tmpdir_files, input_count,
                   chunk, futures, fstate, fresult, yielded, total_kept,
                   total_removed, temp_files, tmp_content, laterVars>>

\* line 79: the name NamedTemporaryFile gives the kept file of future f
tmp_name(f) == "tmp" \o ToString(f)

\* lines 86-87: the report lines of a result's removed records
report_lines(removed) == removed

\* lines 73-87: one iteration of the aggregation loop on the next yielded
\* future; io is where the iteration stops: "ok" (nowhere), "tmp" (writing the
\* kept file raises) or "report" (appending to the report raises)
Consume(io) ==
    /\ pc = "collect"
    /\ finished # <<>>
    /\ LET f == Head(finished) IN
       /\ finished' = Tail(finished)
       /\ yielded' = yielded \cup {f}
       /\ IF fstate[f] = "RAISED"
          THEN /\ io = "ok"
               /\ err' = [kind |-> fresult[f], batch |-> "none", at |-> pc]
               /\ pc' = "unwind"
               /\ UNCHANGED <<total_kept, total_removed, temp_files,
                              tmp_content, tmpdir_files, report>>
          ELSE LET kept == fresult[f].kept
                   removed == fresult[f].removed
               IN  /\ total_kept' = total_kept + Len(kept)
                   /\ total_removed' = total_removed + Len(removed)
                   /\ io = "tmp" => kept # <<>>
                   /\ io = "report" => removed # <<>>
                   /\ IF kept # <<>> /\ io # "tmp"
                      THEN /\ tmp_content' = tmp_content @@ (tmp_name(f) :> kept)
                           /\ tmpdir_files' = tmpdir_files \cup {tmp_name(f)}
                           /\ temp_files' = Append(temp_files, tmp_name(f))
                      ELSE UNCHANGED <<tmp_content, tmpdir_files, temp_files>>
                   /\ IF removed # <<>> /\ io = "ok"
                      THEN report' = report \o report_lines(removed)
                      ELSE UNCHANGED report
                   /\ IF io = "ok"
                      THEN UNCHANGED <<pc, err>>
                      ELSE Raise("OSError")
    /\ UNCHANGED <<args, input, tmpdir, input_count, chunk, futures, fstate,
                   fresult, laterVars>>

\* lines 73 and 61: as_completed is exhausted and the executor block is left;
\* every future has been yielded, so shutdown(wait=True) has nothing to wait for
ExitExecutor ==
    /\ pc = "collect"
    /\ yielded = DOMAIN futures
    /\ pc' = "merge"
    /\ UNCHANGED <<args, input, report, err, tmpdir, tmpdir_files, stage1Vars,
                   laterVars>>

\* the records of the file current_file names
Content(name) ==
    CASE name = "step1_cleaned.fasta" -> step1_output
      [] name = "step2_length_filtered.fasta" -> step2_output
      [] name = "step3_clustered.fasta" -> step3_output
      [] name = "step4_renamed.fasta" -> step4_output
      [] OTHER -> <<>>

\* lines 89-98: the kept files are concatenated into step1_output and unlinked
Merge ==
    /\ pc = "merge"
    /\ step1_output' = Concat([i \in 1..Len(temp_files) |-> tmp_content[temp_files[i]]])
    /\ tmp_content' = <<>>
    /\ tmpdir_files' = (tmpdir_files \ Range(temp_files)) \cup {"step1_cleaned.fasta"}
    /\ step_counts' = step_counts @@ ("input_sequences" :> input_count)
                        @@ ("after_aa_filter" :> total_kept)
                        @@ ("removed_nonstandard_aa" :> total_removed)
    /\ current_file' = "step1_cleaned.fasta"
    /\ pc' = "step2"
    /\ UNCHANGED <<args, input, report, output, output_written, output_clstr,
                   err, tmpdir, input_count, chunk, futures, fstate, fresult,
                   finished, yielded, total_kept, total_removed, temp_files,
                   step2_output, step3_output, step4_output, length_proc,
                   cdhit_proc, id_count, unique_ids, duplicate_ids>>

\* variant of SkipLength: current_file is moved to step2_output all the same
SkipLength_moves_current_file ==
    /\ pc = "step2"
    /\ args.skip_length
    /\ step_counts' = step_counts
                        @@ ("after_length_filter" :> step_counts["after_aa_filter"])
                        @@ ("removed_by_length" :> 0)
    /\ current_file' = "step2_length_filtered.fasta"
    /\ pc' = "step3"
    /\ UNCHANGED <<args, input, report, output, output_written, output_clstr,
                   err, tmpdir, tmpdir_files, stage1Vars, step1_output,
                   step2_output, step3_output, step4_output,
                   length_proc, cdhit_proc, id_count, unique_ids, duplicate_ids>>

\* lines 108-110: --skip-length
SkipLength ==
    /\ pc = "step2"
    /\ args.skip_length
    /\ step_counts' = step_counts
                        @@ ("after_length_filter" :> step_counts["after_aa_filter"])
                        @@ ("removed_by_length" :> 0)
    /\ pc' = "step3"
    /\ UNCHANGED <<args, input, report, output, output_written, output_clstr,
                   err, tmpdir, tmpdir_files, stage1Vars, step1_output,
                   step2_output, step3_output, step4_output, current_file,
                   length_proc, cdhit_proc, id_count, unique_ids, duplicate_ids>>

\* lines 100-103, 18-20: the shell starts seqkit with its output redirected
\* to step2_output
StartLength ==
    /\ pc = "step2"
    /\ ~args.skip_length
    /\ length_proc' = "running"
    /\ tmpdir_files' = tmpdir_files \cup {"step2_length_filtered.fasta"}
    /\ pc' = "length_filter"
    /\ UNCHANGED <<args, input, report, output, output_written, output_clstr,
                   err, tmpdir, stage1Vars, step1_output, step2_output,
                   step3_output, step4_output, step_counts, current_file,
                   cdhit_proc, id_count, unique_ids, duplicate_ids>>

\* lines 20, 105-107: seqkit exits with status 0
LengthExit0 ==
    /\ pc = "length_filter"
    /\ length_proc = "running"
    /\ \E out \in ToolOutputs(Content(current_file)) :
         /\ step2_output' = out
         /\ step_counts' = step_counts
                @@ ("after_length_filter" :> Len(out))
                @@ ("removed_by_length" :> step_counts["after_aa_filter"] - Len(out))
    /\ length_proc' = "exit0"
    /\ current_file' = "step2_length_filtered.fasta"
    /\ pc' = "step3"
    /\ UNCHANGED <<args, input, report, output, output_written, output_clstr,
                   err, tmpdir, tmpdir_files, stage1Vars, step1_output,
                   step3_output, step4_output, cdhit_proc, id_count,
                   unique_ids, duplicate_ids>>

\* variant of LengthExitNonZero: the exit status is not checked
LengthExitNonZero_unchecked ==
    /\ pc = "length_filter"
    /\ length_proc = "running"
    /\ length_proc' = "exit1"
    /\ step_counts' = step_counts
           @@ ("after_length_filter" :> 0)
           @@ ("removed_by_length" :> step_counts["after_aa_filter"])
    /\ current_file' = "step2_length_filtered.fasta"
    /\ pc' = "step3"
    /\ UNCHANGED <<args, input, report, output, output_written, output_clstr,
                   err, tmpdir, tmpdir_files, stage1Vars, step1_output,
                   step2_output, step3_output, step4_output, cdhit_proc,
                   id_count, unique_ids, duplicate_ids>>

\* line 20: seqkit exits with a non-zero status; check=True raises
LengthExitNonZero ==
    /\ pc = "length_filter"
    /\ length_proc = "running"
    /\ length_proc' = "exit1"
    /\ Raise("CalledProcessError")
    /\ UNCHANGED <<args, input, report, output, output_written, output_clstr,
                   tmpdir, tmpdir_files, stage1Vars, step1_output, step2_output,
                   step3_output, step4_output, step_counts, current_file,
                   cdhit_proc, id_count, unique_ids, duplicate_ids>>

\* lines 126-128: --skip-cdhit
SkipCdhit ==
    /\ pc = "step3"
    /\ args.skip_cdhit
    /\ step_counts' = step_counts
                        @@ ("after_cdhit" :> step_counts["after_length_filter"])
                        @@ ("removed_by_cdhit" :> 0)
    /\ pc' = "step4"
    /\ UNCHANGED <<args, input, report, output, output_written, output_clstr,
                   err, tmpdir, tmpdir_files, stage1Vars, step1_output,
                   step2_output, step3_output, step4_output, current_file,
                   length_proc, cdhit_proc, id_count, unique_ids, duplicate_ids>>

\* lines 112-115, 22-24: cd-hit is started
StartCdhit ==
    /\ pc = "step3"
    /\ ~args.skip_cdhit
    /\ cdhit_proc' = "running"
    /\ pc' = "cd_hit_cluster"
    /\ UNCHANGED <<args, input, report, output, output_written, output_clstr,
                   err, tmpdir, tmpdir_files, stage1Vars, step1_output,
                   step2_output, step3_output, step4_output, step_counts,
                   current_file, length_proc, id_count, unique_ids,
                   duplicate_ids>>

\* lines 24, 117-125: cd-hit exits with status 0; its cluster file, when it
\* exists, is copied to {output}.clstr
CdhitExit0 ==
    /\ pc = "cd_hit_cluster"
    /\ cdhit_proc = "running"
    /\ \E out \in ToolOutputs(Content(current_file)) :
         /\ step3_output' = out
         /\ step_counts' = step_counts
                @@ ("after_cdhit" :> Len(out))
                @@ ("removed_by_cdhit" :> step_counts["after_length_filter"] - Len(out))
    /\ \E exists \in BOOLEAN :
         /\ output_clstr' = exists
         /\ tmpdir_files' = tmpdir_files \cup {"step3_clustered.fasta"}
                \cup (IF exists THEN {"step3_clustered.fasta.clstr"} ELSE {})
    /\ cdhit_proc' = "exit0"
    /\ current_file' = "step3_clustered.fasta"
    /\ pc' = "step4"
    /\ UNCHANGED <<args, input, report, output, output_written, err, tmpdir,
                   stage1Vars, step1_output, step2_output, step4_output,
                   length_proc, id_count, unique_ids, duplicate_ids>>

\* variant of CdhitExitNonZero: the exit status is not checked
CdhitExitNonZero_unchecked ==
    /\ pc = "cd_hit_cluster"
    /\ cdhit_proc = "running"
    /\ cdhit_proc' = "exit1"
    /\ step_counts' = step_counts
           @@ ("after_cdhit" :> 0)
           @@ ("removed_by_cdhit" :> step_counts["after_length_filter"])
    /\ current_file' = "step3_clustered.fasta"
    /\ pc' = "step4"
    /\ UNCHANGED <<args, input, report, output, output_written, output_clstr,
                   err, tmpdir, tmpdir_files, stage1Vars, step1_output,
                   step2_output, step3_output, step4_output, length_proc,
                   id_count, unique_ids, duplicate_ids>>

\* line 24: cd-hit exits with a non-zero status; check=True raises
CdhitExitNonZero ==
    /\ pc = "cd_hit_cluster"
    /\ cdhit_proc = "running"
    /\ cdhit_proc' = "exit1"
    /\ Raise("CalledProcessError")
    /\ UNCHANGED <<args, input, report, output, output_written, output_clstr,
                   tmpdir, tmpdir_files, stage1Vars, step1_output, step2_output,
                   step3_output, step4_output, step_counts, current_file,
                   length_proc, id_count, unique_ids, duplicate_ids>>

\* lines 130-145: the duplicate-renaming pass over current_file
Rename ==
    /\ pc = "step4"
    /\ LET st == rename_loop(Content(current_file),
                    [id_count |-> <<>>, out |-> <<>>,
                     unique_ids |-> unique_ids, duplicate_ids |-> duplicate_ids])
       IN  /\ id_count' = st.id_count
           /\ step4_output' = st.out
           /\ unique_ids' = st.unique_ids
           /\ duplicate_ids' = st.duplicate_ids
    /\ tmpdir_files' = tmpdir_files \cup {"step4_renamed.fasta"}
    /\ current_file' = "step4_renamed.fasta"
    /\ pc' = "write"
    /\ UNCHANGED <<args, input, report, output, output_written, output_clstr,
                   err, tmpdir, stage1Vars, step1_output, step2_output,
                   step3_output, step_counts, length_proc, cdhit_proc>>

\* lines 147-148 and the end of the TemporaryDirectory block (line 56)
WriteOutput ==
    /\ pc = "write"
    /\ output' = Content(current_file)
    /\ output_written' = TRUE
    /\ tmpdir' = "removed"
    /\ tmpdir_files' = {}
    /\ pc' = "done"
    /\ UNCHANGED <<args, input, report, output_clstr, err, stage1Vars,
                   step1_output, step2_output, step3_output, step4_output,
                   step_counts, current_file, length_proc, cdhit_proc,
                   id_count, unique_ids, duplicate_ids>>

\* lines 147-148: the final copy raises; the --output file has been opened
\* for writing or not
WriteOutputFails ==
    /\ pc = "write"
    /\ \E opened \in BOOLEAN :
         /\ output_written' = opened
         /\ output' = <<>>
    /\ Raise("OSError")
    /\ UNCHANGED <<args, input, report, output_clstr, tmpdir, tmpdir_files,
                   stage1Vars, step1_output, step2_output, step3_output,
                   step4_output, step_counts, current_file, length_proc,
                   cdhit_proc, id_count, unique_ids, duplicate_ids>>

\* an I/O step of main() raises: opening the report (line 52), parsing the
\* input (line 64), merging the kept files (lines 89-93), the renaming pass
\* (lines 133-144)
IOSteps == {"start", "read", "merge", "step4"}

IOError ==
    /\ pc \in IOSteps
    /\ Raise("OSError")
    /\ UNCHANGED <<args, input, report, tmpdir, tmpdir_files, stage1Vars,
                   laterVars>>

\* variant of Unwind: the temporary directory is not cleaned up when an
\* exception leaves its block
Unwind_no_cleanup ==
    /\ pc = "unwind"
    /\ \A f \in DOMAIN futures : Done(f)
    /\ pc' = "aborted"
    /\ UNCHANGED <<args, input, report, err, tmpdir, tmpdir_files, stage1Vars,
                   laterVars>>

\* the exception leaves the executor block (shutdown(wait=True) waits for every
\* submitted work item) and the TemporaryDirectory block (cleanup), then main()
Unwind ==
    /\ pc = "unwind"
    /\ \A f \in DOMAIN futures : Done(f)
    /\ tmpdir' = IF tmpdir = "exists" THEN "removed" ELSE tmpdir
    /\ tmpdir_files' = {}
    /\ pc' = "aborted"
    /\ UNCHANGED <<args, input, report, err, stage1Vars, laterVars>>

Next ==
    \/ TruncateReport
    \/ OpenExecutor
    \/ ExecutorValueError
    \/ ReadRecord
    \/ EndOfInput
    \/ \E f \in DOMAIN futures : WorkerStart(f)
    \/ \E f \in DOMAIN futures : WorkerReturn(f)
    \/ \E f \in DOMAIN futures : WorkerRaise(f)
    \/ AsCompleted
    \/ \E io \in {"ok", "tmp", "report"} : Consume(io)
    \/ ExitExecutor
    \/ Merge
    \/ SkipLength
    \/ StartLength
    \/ LengthExit0
    \/ LengthExitNonZero
    \/ SkipCdhit
    \/ StartCdhit
    \/ CdhitExit0
    \/ CdhitExitNonZero
    \/ Rename
    \/ WriteOutput
    \/ WriteOutputFails
    \/ IOError
    \/ Unwind

Spec == Init /\ [][Next]_vars

SpecPipeline == InitPipeline /\ [][Next]_vars

\* the main thread and the pool threads keep running: a step that can be
\* taken is eventually taken
InitFair == InitWith(FairArgs, InputsOver(RecordPool))

SpecFair == InitFair /\ [][Next]_vars /\ WF_vars(Next)

TypeOK ==
    /\ pc \in {"start", "step1", "read", "as_completed", "collect", "merge",
               "step2", "length_filter", "step3", "cd_hit_cluster", "step4",
               "write", "done", "unwind", "aborted"}
    /\ input_count \in 0..Len(input)
    /\ total_kept \in 0..Len(input)
    /\ total_removed \in 0..Len(input)

\* ------------------------------------------------------ state predicates
\* the alphabet-filter stage has drained every batch and merged the kept files
Stage1Done == "after_aa_filter" \in DOMAIN step_counts

\* the renaming pass has written step4_output
Renamed == current_file = "step4_renamed.fasta"

\* the positions (in the input) of the records of a file or of the report
PosOf(s) == {s[i].pos : i \in 1..Len(s)}
PosSeq(s) == [i \in 1..Len(s) |-> s[i].pos]
IdSeq(s) == [i \in 1..Len(s) |-> s[i].id]

\* every character of the sequence, upper-cased, is in the configured alphabet
AllStandard(sequence) ==
    \A k \in 1..Len(sequence) :
        upper_char(sequence[k]) \in standard_aa_of(args.keep_uo)

ValidPos == {p \in 1..Len(input) : AllStandard(input[p].seq)}
InvalidPos == (1..Len(input)) \ ValidPos

\* the file the renaming pass reads: the output of the last stage that ran
RenameInput ==
    IF ~args.skip_cdhit THEN step3_output
    ELSE IF ~args.skip_length THEN step2_output
    ELSE step1_output

\* open(args.report, 'w') has returned (line 52)
ReportOpened == pc # "start" /\ err.at # "start"

\* a worker's exception has been raised in the main thread by future.result()
WorkerFailed == \E f \in yielded : fstate[f] = "RAISED"

\* ------------------------------------------------------------------ C1
\* C1: once the alphabet-filter stage has drained all batches, every input
\* position occurs exactly once in the stage-1 kept output or in the report,
\* never in both and never in neither, and total_kept + total_removed equals
\* input_count, the number of records of the input.
C1_Partition ==
    Stage1Done =>
        /\ PosOf(step1_output) \cap PosOf(report) = {}
        /\ PosOf(step1_output) \cup PosOf(report) = 1..Len(input)
        /\ Len(step1_output) = Cardinality(PosOf(step1_output))
        /\ Len(report) = Cardinality(PosOf(report))
        /\ input_count = Len(input)
        /\ total_kept + total_removed = input_count

C1_Witness ==
    /\ Stage1Done
    /\ args.threads >= 2
    /\ Len(futures) >= 2
    /\ step1_output # <<>>
    /\ report # <<>>

\* ------------------------------------------------------------------ C2
\* C2: in the result of every batch, a record of the batch is in kept iff
\* every character of its upper-cased sequence is in the configured alphabet,
\* and is in removed otherwise, whatever the batch and the records it shares
\* the batch with.
C2_Classification ==
    \A f \in DOMAIN futures :
        fstate[f] = "FINISHED" =>
            \A i \in 1..Len(futures[f]) :
                LET r == futures[f][i] IN
                /\ (r.pos \in PosOf(fresult[f].kept)) <=> AllStandard(r.seq)
                /\ (r.pos \in PosOf(fresult[f].removed)) <=> ~AllStandard(r.seq)

C2_Witness ==
    \E f \in DOMAIN futures :
        /\ fstate[f] = "FINISHED"
        /\ Len(futures[f]) >= 2
        /\ \E r \in Range(fresult[f].kept) : r.seq # upper(r.seq)
        /\ fresult[f].removed # <<>>

\* ------------------------------------------------------------------ C3
\* C3: the totals and the sets of kept and removed records at the end of the
\* alphabet-filter stage are those given by the input and the alphabet alone
\* (ValidPos, InvalidPos), so two runs on the same input and alphabet with
\* different chunk sizes, thread counts or completion orders end with the
\* same totals and the same sets.
C3_ChunkInvariance ==
    Stage1Done =>
        /\ total_kept = Cardinality(ValidPos)
        /\ total_removed = Cardinality(InvalidPos)
        /\ PosOf(step1_output) = ValidPos
        /\ PosOf(report) = InvalidPos

C3_Witness ==
    /\ Stage1Done
    /\ args.chunk = 2
    /\ Len(input) = 3
    /\ Len(futures) = 2
    /\ total_kept >= 1
    /\ total_removed >= 1

\* ------------------------------------------------------------------ C4
\* C4: the renaming pass writes the first occurrence of an identifier
\* unchanged and the n-th later occurrence of X as X_n, in file order;
\* identifiers [A, B, A, A, C] become [A, B, A_1, A_2, C].
Earlier(s, i) == Cardinality({j \in 1..(i - 1) : s[j].id = s[i].id})

C4_Example ==
    LET ids == <<"A", "B", "A", "A", "C">>
        records == [i \in 1..5 |-> [pos |-> i, id |-> ids[i], seq |-> <<"A">>]]
        st == rename_loop(records, [id_count |-> <<>>, out |-> <<>>,
                                    unique_ids |-> 0, duplicate_ids |-> 0])
    IN  IdSeq(st.out) = <<"A", "B", "A_1", "A_2", "C">>

C4_RenameRule ==
    /\ C4_Example
    /\ Renamed =>
        /\ Len(step4_output) = Len(RenameInput)
        /\ \A i \in 1..Len(RenameInput) :
              step4_output[i].id =
                 IF Earlier(RenameInput, i) = 0 THEN RenameInput[i].id
                 ELSE RenameInput[i].id \o "_" \o ToString(Earlier(RenameInput, i))

C4_Witness ==
    /\ Renamed
    /\ Len(RenameInput) = 3
    /\ IdSeq(RenameInput) = <<"A", "A", "A">>
    /\ IdSeq(step4_output) = <<"A", "A_1", "A_2">>

\* ------------------------------------------------------------------ C5
\* C5: when a worker's filter invocation has failed, the run is failed with a
\* WorkerError that identifies the failing batch, and no later stage runs.
C5_WorkerError ==
    WorkerFailed =>
        /\ err.kind = "WorkerError"
        /\ err.batch \in {ToString(f) : f \in {g \in yielded : fstate[g] = "RAISED"}}
        /\ pc \in {"unwind", "aborted"}
        /\ ~Stage1Done

\* ------------------------------------------------------------------ C6
\* C6: in a run in which a step before the final copy has failed (a worker, an
\* external tool, an I/O step), main() is left by the exception and the
\* --output file is never written.
EarlierStepFailed ==
    \/ WorkerFailed
    \/ length_proc = "exit1"
    \/ cdhit_proc = "exit1"
    \/ (err.kind # "none" /\ err.at # "write")

C6_NoOutputAfterFailure ==
    EarlierStepFailed =>
        /\ ~output_written
        /\ pc \in {"unwind", "aborted"}

C6_Witness ==
    /\ pc = "aborted"
    /\ cdhit_proc = "exit1"
    /\ length_proc = "exit0"
    /\ step2_output # <<>>
    /\ ~output_written

\* ------------------------------------------------------------------ C7
\* C7: the stages do not overlap and an external tool gates its successor:
\* no worker is active once a tool has been started, the two tools never run
\* together, clustering and every later step are reached only after the
\* length filter (when enabled) exited with status 0, the renaming pass only
\* after clustering (when enabled) exited with status 0, and a non-zero exit
\* leaves main() by the exception.
AfterLength == pc \in {"step3", "cd_hit_cluster", "step4", "write", "done"}
AfterCdhit == pc \in {"step4", "write", "done"}

C7_StagesGated ==
    /\ (length_proc # "idle" \/ cdhit_proc # "idle") =>
           /\ Stage1Done
           /\ \A f \in DOMAIN futures : Done(f)
    /\ ~(length_proc = "running" /\ cdhit_proc = "running")
    /\ length_proc = "running" => pc = "length_filter"
    /\ cdhit_proc = "running" => pc = "cd_hit_cluster"
    /\ (cdhit_proc # "idle" \/ AfterLength) /\ ~args.skip_length
           => length_proc = "exit0"
    /\ (Renamed \/ AfterCdhit) /\ ~args.skip_cdhit => cdhit_proc = "exit0"
    /\ (length_proc = "exit1" \/ cdhit_proc = "exit1") =>
           /\ pc \in {"unwind", "aborted"}
           /\ ~Renamed
    /\ length_proc = "exit1" => cdhit_proc = "idle"

C7_Witness ==
    /\ pc = "done"
    /\ length_proc = "exit0"
    /\ cdhit_proc = "exit0"
    /\ Renamed
    /\ step4_output # <<>>

\* ------------------------------------------------------------------ C8
\* C8: the report is empty once the run has opened it (its first step),
\* whatever it held, never holds a line of an earlier run afterwards, and when
\* the alphabet-filter stage has finished it holds exactly one line per
\* removed record, with the record's identifier and upper-cased sequence, and
\* no line for a kept record.
C8_Report ==
    /\ pc = "step1" => report = <<>>
    /\ ReportOpened => StaleLine \notin Range(report)
    /\ Stage1Done =>
        /\ Len(report) = Cardinality(InvalidPos)
        /\ \A p \in InvalidPos :
              \E i \in 1..Len(report) :
                 report[i] = [pos |-> p, rid |-> input[p].id,
                              seq |-> upper(input[p].seq)]
        /\ \A i \in 1..Len(report) : report[i].pos \notin ValidPos

C8_Witness ==
    /\ Stage1Done
    /\ Len(report) >= 2
    /\ Len(futures) >= 2
    /\ \E i \in 1..Len(report) : report[i].seq # input[report[i].pos].seq

\* ------------------------------------------------------------------ C9
\* C9: under --skip-length --skip-cdhit no external tool is started, the
\* renaming pass reads step1_output, which still holds the kept records of the
\* results in the order they were merged, and writes the same records in the
\* same order, and after_length_filter = after_cdhit = after_aa_filter.
FutureOf(name) == CHOOSE f \in DOMAIN futures : tmp_name(f) = name

Stage1Kept == Concat([i \in 1..Len(temp_files) |-> fresult[FutureOf(temp_files[i])].kept])

C9_SkipBoth ==
    (args.skip_length /\ args.skip_cdhit) =>
        /\ length_proc = "idle"
        /\ cdhit_proc = "idle"
        /\ Stage1Done => step1_output = Stage1Kept
        /\ pc = "step4" =>
              /\ current_file = "step1_cleaned.fasta"
              /\ Content(current_file) = Stage1Kept
        /\ Renamed =>
              /\ PosSeq(step4_output) = PosSeq(Stage1Kept)
              /\ [i \in 1..Len(step4_output) |-> step4_output[i].seq]
                    = [i \in 1..Len(Stage1Kept) |-> Stage1Kept[i].seq]
        /\ "after_length_filter" \in DOMAIN step_counts =>
              step_counts["after_length_filter"] = step_counts["after_aa_filter"]
        /\ "after_cdhit" \in DOMAIN step_counts =>
              step_counts["after_cdhit"] = step_counts["after_aa_filter"]

C9_Witness ==
    /\ args.skip_length
    /\ args.skip_cdhit
    /\ pc = "done"
    /\ Len(step1_output) >= 2
    /\ output = step4_output
    /\ "after_cdhit" \in DOMAIN step_counts

\* ----------------------------------------------------------------- C10
\* C10: the submitted batches do not overlap, their concatenation in
\* submission order is the input read so far (the whole input once the last
\* batch is submitted), and every batch has at most args.chunk records.
C10_Batches ==
    /\ PosSeq(Concat(futures) \o chunk) = [i \in 1..input_count |-> i]
    /\ pc \notin {"start", "step1", "read", "unwind", "aborted"} =>
           PosSeq(Concat(futures)) = [i \in 1..Len(input) |-> i]
    /\ \A f \in DOMAIN futures : Len(futures[f]) <= args.chunk

\* ----------------------------------------------------------------- C11
\* C11: no submitted batch is empty; once reading has ended nothing is left
\* in the chunk buffer that was not submitted; with an empty input no batch is
\* submitted, the aggregation loop ends at once, no worker exception can
\* occur and total_kept = total_removed = 0.
ReadingEnded ==
    pc \notin {"start", "step1", "read"} /\ err.at \notin {"start", "step1", "read"}

C11_NoEmptyBatch ==
    /\ \A f \in DOMAIN futures : futures[f] # <<>>
    /\ ReadingEnded => PosOf(Concat(futures)) = 1..Len(input)
    /\ (input = <<>>) =>
          /\ futures = <<>>
          /\ total_kept = 0
          /\ total_removed = 0
          /\ ~WorkerFailed
          /\ pc = "collect" => (finished = <<>> /\ yielded = DOMAIN futures)

C11_Witness ==
    /\ input = <<>>
    /\ args.threads >= 1
    /\ Stage1Done
    /\ futures = <<>>
    /\ err.kind = "none"

\* ----------------------------------------------------------------- C12
\* C12: while the input is still being read the aggregator has consumed
\* nothing (no future yielded, counters 0, no kept file, no report line), and
\* whenever a result has been consumed every record of the input is in a
\* submitted batch; workers may be running or finished during the reading.
AllSubmitted ==
    /\ input_count = Len(input)
    /\ PosSeq(Concat(futures)) = [i \in 1..Len(input) |-> i]

NothingConsumed ==
    /\ yielded = {}
    /\ total_kept = 0
    /\ total_removed = 0
    /\ temp_files = <<>>
    /\ ReportOpened => report = <<>>

C12_EagerSubmission ==
    /\ (pc \in {"start", "step1", "read", "as_completed"}) => NothingConsumed
    /\ ~NothingConsumed => AllSubmitted

C12_Witness ==
    /\ pc = "read"
    /\ input_count < Len(input)
    /\ \E f \in DOMAIN futures : fstate[f] = "FINISHED"
    /\ \E f \in DOMAIN futures : fstate[f] = "RUNNING"
    /\ NothingConsumed

\* ----------------------------------------------------------------- C13
\* C13: results are consumed in completion order: a future that finishes
\* while the aggregation loop runs joins the end of the queue of futures to be
\* yielded, the loop always consumes the head of that queue, and the kept
\* files are merged in the order they were consumed.  With more than one
\* thread and two batches holding a kept record this order can differ from the
\* input order (C13_Witness is such a state).
C13_CompletionOrder ==
    [][ /\ \A f \in DOMAIN futures :
              (pc = "collect" /\ ~Done(f) /\ Done(f)') => finished' = Append(finished, f)
        /\ yielded' # yielded =>
              /\ finished # <<>>
              /\ yielded' = yielded \cup {Head(finished)}
              /\ finished' = Tail(finished)
        /\ temp_files' # temp_files =>
              temp_files' = Append(temp_files, tmp_name(Head(finished)))
        /\ step1_output' # step1_output => step1_output' = Stage1Kept
      ]_vars

C13_Witness ==
    /\ Stage1Done
    /\ args.threads > 1
    /\ Cardinality({f \in DOMAIN futures : fresult[f].kept # <<>>}) >= 2
    /\ \E i, j \in 1..Len(step1_output) :
          i < j /\ step1_output[i].pos > step1_output[j].pos

\* ----------------------------------------------------------------- C14
\* C14: total_kept and total_removed are 0 at the start, equal in every state
\* the summed sizes of the kept and removed parts of the results consumed so
\* far, never decrease, change only in a step of the main thread that consumes
\* a result (never in a worker's step), and do not change once every batch
\* has been drained.
Consumed == {f \in yielded : fstate[f] = "FINISHED"}

RECURSIVE SumKept(_)
SumKept(S) ==
    IF S = {} THEN 0
    ELSE LET f == CHOOSE g \in S : TRUE
         IN  Len(fresult[f].kept) + SumKept(S \ {f})

RECURSIVE SumRemoved(_)
SumRemoved(S) ==
    IF S = {} THEN 0
    ELSE LET f == CHOOSE g \in S : TRUE
         IN  Len(fresult[f].removed) + SumRemoved(S \ {f})

CountersMatch ==
    /\ total_kept = SumKept(Consumed)
    /\ total_removed = SumRemoved(Consumed)
    /\ pc \in {"start", "step1", "read", "as_completed"} =>
          (total_kept = 0 /\ total_removed = 0)

CountersStep ==
    /\ total_kept' >= total_kept
    /\ total_removed' >= total_removed
    /\ (total_kept' # total_kept \/ total_removed' # total_removed) =>
          /\ pc = "collect"
          /\ fstate' = fstate
          /\ finished # <<>>
          /\ yielded' = yielded \cup {Head(finished)}
          /\ Head(finished) \notin yielded
    /\ (ReadingEnded /\ yielded = DOMAIN futures) =>
          (total_kept' = total_kept /\ total_removed' = total_removed)

C14_Counters == []CountersMatch /\ [][CountersStep]_vars

C14_Witness ==
    /\ pc = "collect"
    /\ Cardinality(Consumed) = 1
    /\ total_kept + total_removed = 1
    /\ \E f \in DOMAIN futures : fstate[f] = "FINISHED" /\ f \notin yielded
    /\ \E f \in DOMAIN futures : fstate[f] = "RUNNING"

\* ----------------------------------------------------------------- C15
\* C15: when main() has ended, by its last statement or by an exception raised
\* at any step, the temporary directory and every file the run created in it
\* (kept files of the batches, step files) are gone; files exist in the
\* directory only while it exists, and the kept files of the batches are
\* unlinked by the merge.
TmpKeptFiles == {tmp_name(f) : f \in DOMAIN futures}

C15_TempCleanup ==
    /\ pc \in {"done", "aborted"} =>
          /\ tmpdir_files = {}
          /\ tmpdir # "exists"
    /\ tmpdir_files # {} => tmpdir = "exists"
    /\ Stage1Done => tmpdir_files \cap TmpKeptFiles = {}

C15_Witness ==
    /\ pc = "aborted"
    /\ err.at = "collect"
    /\ temp_files # <<>>
    /\ tmpdir = "removed"
    /\ tmpdir_files = {}

\* ----------------------------------------------------------------- C16
\* C16: the renaming pass writes as many records as it reads, the same
\* records in the same order with the same sequences (only identifiers may
\* differ), and unique_ids + duplicate_ids equals after_cdhit.
SeqSeq(s) == [i \in 1..Len(s) |-> s[i].seq]

C16_RenamePreserves ==
    Renamed =>
        /\ Len(step4_output) = Len(RenameInput)
        /\ PosSeq(step4_output) = PosSeq(RenameInput)
        /\ SeqSeq(step4_output) = SeqSeq(RenameInput)
        /\ unique_ids + duplicate_ids = Len(step4_output)
        /\ unique_ids + duplicate_ids = step_counts["after_cdhit"]

C16_Witness ==
    /\ Renamed
    /\ pc = "done"
    /\ duplicate_ids >= 1
    /\ unique_ids >= 1
    /\ cdhit_proc = "exit0"
    /\ Len(output) = 3

\* ----------------------------------------------------------------- C17
\* C17: after the renaming pass the identifiers of the records written are
\* pairwise distinct.
C17_DistinctIds ==
    Renamed =>
        \A i, j \in 1..Len(step4_output) :
            i # j => step4_output[i].id # step4_output[j].id

\* ----------------------------------------------------------------- C18
\* C18: no future waits twice to be yielded or is yielded again, the counts
\* of the summary are taken only when every submitted future has been yielded
\* and then account for every batch, and, the threads running on, the stage
\* ends (all batches drained and merged) unless an exception has left main().
NoDuplicates(s) == \A i, j \in 1..Len(s) : i # j => s[i] # s[j]

DrainedOnce ==
    /\ NoDuplicates(finished)
    /\ pc = "collect" =>
          /\ Range(finished) \cap yielded = {}
          /\ \A f \in Range(finished) : Done(f)
    /\ yielded \subseteq DOMAIN futures
    /\ Stage1Done =>
          /\ yielded = DOMAIN futures
          /\ finished = <<>>
          /\ step_counts["after_aa_filter"] = SumKept(DOMAIN futures)
          /\ step_counts["removed_nonstandard_aa"] = SumRemoved(DOMAIN futures)
          /\ step_counts["after_aa_filter"] = total_kept
          /\ step_counts["removed_nonstandard_aa"] = total_removed

C18_DrainTerminates ==
    /\ []DrainedOnce
    /\ <>(Stage1Done \/ err.kind # "none")

C18_Witness ==
    /\ Stage1Done
    /\ err.kind = "none"
    /\ Len(futures) = 3
    /\ args.threads = 2
    /\ yielded = DOMAIN futures

\* ----------------------------------------------------------------- C19
\* C19 (as claimed): with a pool of one thread the records of the stage-1
\* kept output are in input order, for every input and every chunk size
\* (stated here for the chunk sizes of at least 1).
Increasing(s) == \A i, j \in 1..Len(s) : i < j => s[i] < s[j]

C19_SingleWorkerOrder ==
    (args.threads = 1 /\ args.chunk >= 1 /\ Stage1Done) =>
        Increasing(PosSeq(step1_output))

\* C19 (amended): with a pool of one thread the batches finish in submission
\* order; a batch that finishes while the aggregation loop runs is consumed
\* after every earlier batch; the kept records of a batch are contiguous and
\* in input order in the stage-1 output, which is therefore in input order
\* when there is a single batch.  (Batches already finished when the loop
\* starts are consumed in any order.)
SingleWorkerState ==
    args.threads = 1 =>
        /\ \A f, g \in DOMAIN futures : (f < g /\ Done(g)) => Done(f)
        /\ Stage1Done =>
              /\ step1_output = Stage1Kept
              /\ \A f \in DOMAIN futures : Increasing(PosSeq(fresult[f].kept))
              /\ Len(futures) <= 1 => Increasing(PosSeq(step1_output))

SingleWorkerStep ==
    args.threads = 1 =>
        \A f \in DOMAIN futures :
            (pc = "collect" /\ ~Done(f) /\ Done(f)') =>
                /\ finished' = Append(finished, f)
                /\ \A g \in Range(finished) \cup yielded : g < f

C19_SingleWorkerAmended == []SingleWorkerState /\ [][SingleWorkerStep]_vars

C19_Witness ==
    /\ args.threads = 1
    /\ Stage1Done
    /\ Len(futures) = 3
    /\ Len(step1_output) = 3
    /\ ~Increasing(PosSeq(step1_output))

====
